---- MODULE Spec2Model ----
(***************************************************************************)
(* A model of pve_exporter/collector.py: the collectors that translate     *)
(* Proxmox VE API responses into metric families, and collect_pve, which   *)
(* registers the enabled collectors and renders them.                      *)
(*                                                                         *)
(* Python strings are modelled as sequences of string tokens, so that      *)
(* formatting ("%s/%s" % ..., f'disk/{node}/{volid}') is a concatenation   *)
(* and every label value has the same shape.  Each collector has its own   *)
(* specification (SpecConfig, SpecVolumes, SpecNotes, SpecResources) and   *)
(* collect_pve has SpecPve; an exception that leaves a collector is kept   *)
(* in escaped.                                                             *)
(***************************************************************************)
EXTENDS Integers, Sequences, FiniteSets, TLC

(* Bounds of the model. *)
MaxNodes == 2        \* nodes answered to ClusterNodeConfigCollector
MaxGuests == 1       \* guests per guest list
MaxVolNodes == 3     \* nodes answered to VolumesCollector
MaxNotesLen == 6     \* tokens in the cluster notes
MaxResources == 2    \* records answered by cluster.resources.get()
MaxMetricFields == 1 \* allow-listed fields on one resource record
MaxEntries == 2      \* entries answered by cluster.status.get()

VARIABLES
    pc,                   \* position in the collector being run
    nodes,                \* list returned by self._pve.nodes.get()
    ni,                   \* index of `node` in the loop over nodes
    vmlist,               \* list returned by nodes(node).qemu.get() / lxc.get()
    vi,                   \* index of `vmdata` in the loop over vmlist
    metrics,              \* ClusterNodeConfigCollector.collect: metrics dict
    log,                  \* node names passed to self._log.exception
    escaped,              \* exception that left collect, "none" if none
    returned,             \* families returned by collect, <<>> before it returns
    raisedAt,             \* history: nodes for which an API call raised
    listed,               \* history: <<node, vmtype>> guest lists answered
    answered,             \* history: guest configs answered
    cluster,              \* VolumesCollector: what each node answers, per node
    storages,             \* list returned by storage_api.get()
    si,                   \* index of `storage` in the loop over storages
    seen_shared_storages, \* VolumesCollector.collect: seen_shared_storages
    disk_size,            \* VolumesCollector.collect: disk_size family
    contentCalls,         \* history: <<node, storage record>> content listings asked
    notes,                \* ClusterCustomMetricsCollector.collect: notes
    m,                    \* ClusterCustomMetricsCollector.collect: the match m
    resources,            \* list returned by self._pve.cluster.resources.get()
    ri,                   \* index of `resource` in the loop over resources
    res_metrics,          \* ClusterResourcesCollector.collect: metrics dict
    info_metrics,         \* ClusterResourcesCollector.collect: info_metrics dict
    options,              \* collect_pve: the CollectorsOptions passed in
    status_response,      \* what cluster.status.get() answers during the scrape
    registry,             \* collect_pve: the collectors registered, in order
    ci,                   \* index of the collector generate_latest is collecting
    output                \* generate_latest: the families rendered so far

common == <<pc, nodes, ni, log, escaped, returned, raisedAt>>
cfgVars == <<vmlist, vi, metrics, listed, answered>>
volVars == <<cluster, storages, si, seen_shared_storages, disk_size, contentCalls>>

noteVars == <<notes, m>>

resVars == <<resources, ri, res_metrics, info_metrics>>

pveVars == <<options, status_response, registry, ci, output>>

vars == <<common, cfgVars, volVars, noteVars, resVars, pveVars>>

notCfg == <<volVars, noteVars, resVars, pveVars>>
notVol == <<cfgVars, noteVars, resVars, pveVars>>
notNote == <<nodes, ni, log, raisedAt, cfgVars, volVars, resVars, pveVars>>
notRes == <<nodes, ni, log, raisedAt, cfgVars, volVars, noteVars, pveVars>>
notPve == <<nodes, ni, log, raisedAt, cfgVars, volVars, noteVars, resVars>>

(***************************************************************************)
(* Values                                                                  *)
(***************************************************************************)
NodeNames == <<"pve1", "pve2", "pve3", "pve4">>
VmIds == <<"100", "101", "102">>

\* str(x) of a one-token value
Str(x) == <<x>>

NodeName(i) == Str(NodeNames[i])

\* the node lists nodes.get() may answer: [{'node': 'pve1'}, ...]
NodeLists == { [i \in 1..k |-> NodeName(i)] : k \in 0..MaxNodes }

\* the guest lists qemu.get() / lxc.get() may answer: [{'vmid': 100}, ...]
GuestLists == { [i \in 1..k |-> VmIds[i]] : k \in 0..MaxGuests }

\* the dicts config.get() may answer; 'onboot' is absent when it was never set
ConfigSet == { [cores |-> 1], [cores |-> 1, onboot |-> 1] }

\* the order in which config.items() is walked
ConfigKeyOrder == <<"cores", "onboot">>

(***************************************************************************)
(* prometheus_client's GaugeMetricFamily, as the collectors use it         *)
(***************************************************************************)
Min(a, b) == IF a <= b THEN a ELSE b

\* dict(zip(names, values)): positional pairing, cut at the shorter list,
\* a later duplicate name overwriting an earlier one
Zip(names, values) ==
    LET k == Min(Len(names), Len(values))
    IN  [n \in { names[i] : i \in 1..k } |->
            values[CHOOSE i \in 1..k :
                      /\ names[i] = n
                      /\ \A j \in 1..k : names[j] = n => j <= i]]

GaugeMetricFamily(name, labels) ==
    [name |-> name, labelnames |-> labels, samples |-> <<>>]

\* family.add_metric(label_values, value)
AddMetric(family, label_values, value) ==
    [family EXCEPT !.samples =
        Append(@, [labels |-> Zip(family.labelnames, label_values),
                   value  |-> value])]

Samples(family) == { family.samples[i] : i \in 1..Len(family.samples) }

Range(s) == { s[i] : i \in 1..Len(s) }

(***************************************************************************)
(* ClusterNodeConfigCollector.collect                                      *)
(***************************************************************************)
CfgMetrics ==
    [onboot |-> GaugeMetricFamily("pve_onboot_status", <<"id", "node", "type">>)]

\* "%s/%s" % (vmtype, vmid)
GuestId(vmtype, vmid) == <<vmtype, "/", vmid>>

GuestLabelValues(vmtype, vmid, node) ==
    <<GuestId(vmtype, vmid), node, Str(vmtype)>>

\* for key, metric_value in config: if key in metrics: add_metric(...)
RECURSIVE CfgItems(_, _, _, _)
CfgItems(fams, config, keys, label_values) ==
    IF keys = <<>> THEN fams
    ELSE LET key == Head(keys)
             next == IF key \in DOMAIN config /\ key \in DOMAIN fams
                     THEN [fams EXCEPT ![key] =
                              AddMetric(@, label_values, config[key])]
                     ELSE fams
         IN  CfgItems(next, config, Tail(keys), label_values)

\* where the loop over nodes stands once node i is the next one
NodePc(i, first) == IF i > Len(nodes) THEN "return" ELSE first

\* the pc after the guest list of vmtype has been walked to its end
AfterGuests(vmtype) ==
    IF vmtype = "qemu" THEN "lxc_list" ELSE NodePc(ni + 1, "qemu_list")

VmType == IF pc \in {"qemu_list", "qemu_cfg"} THEN "qemu" ELSE "lxc"

\* the attributes ClusterNodeConfigCollector.__init__ sets
CfgAttrs == {"_pve", "_log"}

\* the handler with break in the place of continue
CfgExceptBreak ==
    /\ raisedAt' = raisedAt \cup {nodes[ni]}
    /\ vmlist' = <<>>
    /\ vi' = 0
    /\ log' = Append(log, nodes[ni])
    /\ ni' = ni + 1
    /\ pc' = "return"
    /\ UNCHANGED <<nodes, metrics, escaped, returned, listed, answered, notCfg>>

\* except ResourceException: self._log.exception(..., node['node']); continue
\* (reading self._log raises AttributeError when __init__ never set it)
CfgExcept ==
    /\ raisedAt' = raisedAt \cup {nodes[ni]}
    /\ vmlist' = <<>>
    /\ vi' = 0
    /\ IF "_log" \in CfgAttrs
       THEN /\ log' = Append(log, nodes[ni])
            /\ ni' = ni + 1
            /\ pc' = NodePc(ni + 1, "qemu_list")
            /\ UNCHANGED escaped
       ELSE /\ escaped' = "AttributeError"
            /\ pc' = "raised"
            /\ UNCHANGED <<log, ni>>
    /\ UNCHANGED <<nodes, metrics, returned, listed, answered, notCfg>>

\* for node in self._pve.nodes.get():
CfgNodesGet ==
    /\ pc = "start"
    /\ \/ /\ \E l \in NodeLists : nodes' = l
          /\ ni' = 1
          /\ pc' = IF nodes' = <<>> THEN "return" ELSE "qemu_list"
          /\ UNCHANGED escaped
       \/ /\ escaped' = "ResourceException"
          /\ pc' = "raised"
          /\ UNCHANGED <<nodes, ni>>
    /\ UNCHANGED <<vmlist, vi, metrics, log, returned, raisedAt, listed, answered,
                   notCfg>>

\* for vmdata in self._pve.nodes(node['node']).qemu.get():   (and .lxc.get())
CfgGuestList ==
    /\ pc \in {"qemu_list", "lxc_list"}
    /\ \/ /\ \E l \in GuestLists : vmlist' = l
          /\ vi' = 1
          /\ listed' = listed \cup {<<nodes[ni], VmType>>}
          /\ IF vmlist' = <<>>
             THEN /\ pc' = AfterGuests(VmType)
                  /\ ni' = IF VmType = "lxc" THEN ni + 1 ELSE ni
             ELSE /\ pc' = IF VmType = "qemu" THEN "qemu_cfg" ELSE "lxc_cfg"
                  /\ ni' = ni
          /\ UNCHANGED <<nodes, metrics, log, escaped, returned, raisedAt, answered,
                         notCfg>>
       \/ CfgExcept

\* config = self._pve.nodes(node['node']).qemu(vmdata['vmid']).config.get().items()
\* and the loop over its items
CfgGuestConfig ==
    /\ pc \in {"qemu_cfg", "lxc_cfg"}
    /\ \/ /\ \E config \in ConfigSet :
                /\ metrics' = CfgItems(metrics, config, ConfigKeyOrder,
                                  GuestLabelValues(VmType, vmlist[vi], nodes[ni]))
                /\ answered' = answered \cup
                      {[node |-> nodes[ni], vmtype |-> VmType,
                        vmid |-> vmlist[vi], config |-> config]}
          /\ IF vi < Len(vmlist)
             THEN /\ vi' = vi + 1
                  /\ UNCHANGED <<pc, ni>>
             ELSE /\ vi' = vi + 1
                  /\ pc' = AfterGuests(VmType)
                  /\ ni' = IF VmType = "lxc" THEN ni + 1 ELSE ni
          /\ UNCHANGED <<nodes, vmlist, log, escaped, returned, raisedAt, listed,
                         notCfg>>
       \/ CfgExcept

\* return metrics.values()
CfgReturn ==
    /\ pc = "return"
    /\ returned' = <<metrics.onboot>>
    /\ pc' = "returned"
    /\ UNCHANGED <<nodes, ni, vmlist, vi, metrics, log, escaped, raisedAt,
                   listed, answered, notCfg>>

(***************************************************************************)
(* VolumesCollector.collect                                                *)
(*                                                                         *)
(* What the nodes after a failing one would have answered matters to what  *)
(* is said of this collector, so the answers of every node are fixed when  *)
(* nodes.get() answers: cluster[i] holds the answers of nodes[i].          *)
(***************************************************************************)
\* the storage names of the cluster: one name, which each node reports or not
StorageNames == <<"nfs">>
StorageTypes == {"dir", "lvmthin"}

Truthy(x) == x # 0

\* a record of nodes(node).storage.get()
StorageRecords ==
    { [storage |-> Str(StorageNames[n]), type |-> Str(t), active |-> a, shared |-> s] :
        n \in DOMAIN StorageNames, t \in StorageTypes, a \in 0..1, s \in 0..1 }

\* the storage lists a node may answer: no name twice
StorageLists ==
    { l \in UNION { [1..k -> StorageRecords] : k \in 0..Len(StorageNames) } :
        \A i, j \in DOMAIN l : l[i].storage = l[j].storage => i = j }

\* the volume lists storage_api(name).content.get() may answer
DiskLists == { <<>>, <<[volid |-> Str("vm-100-disk-0"), size |-> 1]>> }

\* an answer of the API: the call raises ResourceException, or returns value
Answers(values) ==
    { [raises |-> FALSE, value |-> v] : v \in values }
        \cup { [raises |-> TRUE, value |-> <<>>] }

StorageNameSet == { Str(StorageNames[n]) : n \in DOMAIN StorageNames }

\* what one node answers: its storage list, and the content of each storage
NodeAnswers ==
    [storage : Answers(StorageLists), content : [StorageNameSet -> Answers(DiskLists)]]

\* the node lists nodes.get() may answer to VolumesCollector
VolNodeLists == { [i \in 1..k |-> NodeName(i)] : k \in 0..MaxVolNodes }

\* the attributes VolumesCollector.__init__ sets (Collector itself sets none)
VolAttrs == {"_pve"}

VolDiskSize ==
    GaugeMetricFamily("pve_volume_size_bytes", <<"id", "node", "storage">>)

\* f'disk/{node["node"]}/{disk["volid"]}'
DiskId(node, volid) == <<"disk", "/">> \o node \o <<"/">> \o volid

\* the filter with == in the place of !=
SkippedByFilterDir(storage) ==
    ~(storage.type = Str("dir") /\ Truthy(storage.active))

\* if not (storage['type'] != 'dir' and storage['active']): continue
SkippedByFilter(storage) ==
    ~(storage.type # Str("dir") /\ Truthy(storage.active))

\* if storage['shared'] and storage['storage'] in seen_shared_storages: continue
SkippedAsSeen(storage, seen) ==
    Truthy(storage.shared) /\ storage.storage \in seen

\* for disk in content: disk_size.add_metric([id, node, storage], disk['size'])
RECURSIVE AddDisks(_, _, _, _)
AddDisks(family, disks, node, storage) ==
    IF disks = <<>> THEN family
    ELSE AddDisks(AddMetric(family,
                            <<DiskId(node, Head(disks).volid), node, storage.storage>>,
                            Head(disks).size),
                  Tail(disks), node, storage)

\* the loop over storages moves past storages[si]
VolNextStorage ==
    IF si < Len(storages)
    THEN /\ si' = si + 1
         /\ pc' = "storage"
         /\ UNCHANGED ni
    ELSE /\ si' = si + 1
         /\ ni' = ni + 1
         /\ pc' = NodePc(ni + 1, "storage_list")

\* except ResourceException: self._log.exception(..., node['node']); continue
\* (reading self._log raises AttributeError when __init__ never set it)
VolExcept ==
    /\ raisedAt' = raisedAt \cup {nodes[ni]}
    /\ IF "_log" \in VolAttrs
       THEN /\ log' = Append(log, nodes[ni])
            /\ ni' = ni + 1
            /\ pc' = NodePc(ni + 1, "storage_list")
            /\ UNCHANGED escaped
       ELSE /\ escaped' = "AttributeError"
            /\ pc' = "raised"
            /\ UNCHANGED <<log, ni>>

\* seen_shared_storages = set(); for node in self._pve.nodes.get():
VolNodesGet ==
    /\ pc = "start"
    /\ \/ /\ \E l \in VolNodeLists :
                /\ nodes' = l
                /\ \E c \in [DOMAIN l -> NodeAnswers] : cluster' = c
          /\ ni' = 1
          /\ pc' = IF nodes' = <<>> THEN "return" ELSE "storage_list"
          /\ UNCHANGED escaped
       \/ /\ escaped' = "ResourceException"
          /\ pc' = "raised"
          /\ UNCHANGED <<nodes, ni, cluster>>
    /\ UNCHANGED <<log, returned, raisedAt, storages, si, seen_shared_storages,
                   disk_size, contentCalls, notVol>>

\* storage_api = self._pve.nodes(node['node']).storage; for storage in storage_api.get():
VolStorageList ==
    /\ pc = "storage_list"
    /\ IF cluster[ni].storage.raises
       THEN /\ VolExcept
            /\ UNCHANGED <<nodes, returned, volVars, notVol>>
       ELSE /\ storages' = cluster[ni].storage.value
            /\ si' = 1
            /\ IF storages' = <<>>
               THEN /\ ni' = ni + 1
                    /\ pc' = NodePc(ni + 1, "storage_list")
               ELSE /\ pc' = "storage"
                    /\ UNCHANGED ni
            /\ UNCHANGED <<nodes, log, escaped, returned, raisedAt, cluster,
                           seen_shared_storages, disk_size, contentCalls, notVol>>

\* the two filters on storage, and seen_shared_storages.add(storage['storage'])
VolStorage ==
    /\ pc = "storage"
    /\ LET storage == storages[si]
       IN  IF SkippedByFilter(storage)
           THEN /\ VolNextStorage
                /\ UNCHANGED seen_shared_storages
           ELSE IF SkippedAsSeen(storage, seen_shared_storages)
           THEN /\ VolNextStorage
                /\ UNCHANGED seen_shared_storages
           ELSE /\ seen_shared_storages' = seen_shared_storages \cup {storage.storage}
                /\ pc' = "content"
                /\ UNCHANGED <<ni, si>>
    /\ UNCHANGED <<nodes, log, escaped, returned, raisedAt, cluster, storages,
                   disk_size, contentCalls, notVol>>

\* for disk in storage_api(storage['storage']).content.get(): disk_size.add_metric(...)
VolContent ==
    /\ pc = "content"
    /\ LET storage == storages[si]
           answer  == cluster[ni].content[storage.storage]
       IN  /\ contentCalls' = contentCalls \cup {<<nodes[ni], storage>>}
           /\ IF answer.raises
              THEN /\ VolExcept
                   /\ UNCHANGED <<si, disk_size>>
              ELSE /\ disk_size' = AddDisks(disk_size, answer.value, nodes[ni], storage)
                   /\ VolNextStorage
                   /\ UNCHANGED <<log, escaped, raisedAt>>
    /\ UNCHANGED <<nodes, returned, cluster, storages, seen_shared_storages, notVol>>

\* return [disk_size]
VolReturn ==
    /\ pc = "return"
    /\ returned' = <<disk_size>>
    /\ pc' = "returned"
    /\ UNCHANGED <<nodes, ni, log, escaped, raisedAt, volVars, notVol>>

InitVolVars ==
    /\ cluster = <<>>
    /\ storages = <<>>
    /\ si = 0
    /\ seen_shared_storages = {}
    /\ disk_size = VolDiskSize
    /\ contentCalls = {}

(***************************************************************************)
(* ClusterCustomMetricsCollector.collect                                   *)
(*                                                                         *)
(* The notes are a sequence of tokens: "#", " " (any whitespace, a newline *)
(* included), "Prometheus metrics" (the literal of the pattern), "fence" (three *)
(* backticks) and "foo 5" (a line of exposition text; outside a block, any *)
(* other text).                                                            *)
(***************************************************************************)
NoteTokens == {"#", " ", "Prometheus metrics", "fence", "foo 5"}

\* the texts the 'description' field may hold
NoteTexts == UNION { [1..k -> NoteTokens] : k \in 0..MaxNotesLen }

\* the dicts cluster.options.get() may answer: with or without 'description'
OptionsAnswers ==
    { [description |-> d] : d \in NoteTexts } \cup { [keyboard |-> <<"en-us">>] }

NoMatch == [matched |-> FALSE, group |-> <<>>]

\* the first position from p on that does not hold tok (Len(text) + 1 if none)
SkipAll(text, p, tok) ==
    CHOOSE q \in p..(Len(text) + 1) :
        /\ \A k \in p..(q - 1) : text[k] = tok
        /\ q > Len(text) \/ text[q] # tok

\* the pattern #+\s*Prometheus metrics\s*FENCE(.*?)FENCE (DOTALL) tried at position p
MatchAt(text, p) ==
    IF p > Len(text) \/ text[p] # "#" THEN NoMatch
    ELSE LET a == SkipAll(text, p, "#")
             b == SkipAll(text, a, " ")
         IN  IF b > Len(text) \/ text[b] # "Prometheus metrics" THEN NoMatch
             ELSE LET c == SkipAll(text, b + 1, " ")
                  IN  IF c > Len(text) \/ text[c] # "fence" THEN NoMatch
                      ELSE LET closing == { e \in (c + 1)..Len(text) : text[e] = "fence" }
                           IN  IF closing = {} THEN NoMatch
                               ELSE LET e == CHOOSE x \in closing :
                                                \A y \in closing : x <= y
                                    IN  [matched |-> TRUE,
                                         group |-> SubSeq(text, c + 1, e - 1)]

\* re.match(pattern, notes, re.MULTILINE | re.DOTALL): the pattern holds no ^ or $,
\* so MULTILINE changes nothing and the match is tried at the start of notes only
ReMatch(text) == MatchAt(text, 1)

\* text_string_to_metric_families raises ValueError on a line that is no sample
ParseRaises(text) == "Prometheus metrics" \in Range(text)

\* text_string_to_metric_families(text): one family per sample line
RECURSIVE ParseFamilies(_)
ParseFamilies(text) ==
    IF text = <<>> THEN <<>>
    ELSE IF Head(text) = "foo 5"
    THEN <<[name |-> <<"foo">>,
            samples |-> <<[name |-> <<"foo">>, labels |-> <<>>, value |-> 5]>>]>>
            \o ParseFamilies(Tail(text))
    ELSE ParseFamilies(Tail(text))

\* sample.labels | {'__source': 'Datacenter > Notes'}, labels as <<name, value>> pairs
WithSource(labels) ==
    SelectSeq(labels, LAMBDA l : l[1] # "__source")
        \o <<(<<"__source", <<"Datacenter > Notes">>>>)>>

\* metric.name = f'pve_{metric.name}' and the same for each of its samples
Relabel(families) ==
    [i \in DOMAIN families |->
        [name |-> <<"pve_">> \o families[i].name,
         samples |->
            [j \in DOMAIN families[i].samples |->
                [name |-> <<"pve_">> \o families[i].samples[j].name,
                 labels |-> WithSource(families[i].samples[j].labels),
                 value |-> families[i].samples[j].value]]]]

\* notes = self._pve.cluster.options.get().get('description', '')
CustomOptionsGet ==
    /\ pc = "start"
    /\ \E answer \in OptionsAnswers :
          notes' = IF "description" \in DOMAIN answer THEN answer.description
                   ELSE <<>>
    /\ pc' = "match"
    /\ UNCHANGED <<m, escaped, returned, notNote>>

\* if m := re.match(...): parse group 1, relabel; return metrics
CustomCollect ==
    /\ pc = "match"
    /\ m' = ReMatch(notes)
    /\ IF m'.matched /\ ParseRaises(m'.group)
       THEN /\ escaped' = "ValueError"
            /\ pc' = "raised"
            /\ UNCHANGED returned
       ELSE /\ returned' = IF m'.matched THEN Relabel(ParseFamilies(m'.group))
                           ELSE <<>>
            /\ pc' = "returned"
            /\ UNCHANGED escaped
    /\ UNCHANGED <<notes, notNote>>

InitNoteVars ==
    /\ notes = <<>>
    /\ m = NoMatch

(***************************************************************************)
(* ClusterResourcesCollector.collect                                       *)
(***************************************************************************)
\* the keys of the metrics dict, in its order
MetricKeys ==
    <<"maxdisk", "disk", "maxmem", "mem", "netout", "netin", "diskwrite",
      "diskread", "cpu", "maxcpu", "uptime", "shared">>

ResMetrics ==
    [maxdisk   |-> GaugeMetricFamily("pve_disk_size_bytes",
                                     <<"id", "type", "storage", "node">>),
     disk      |-> GaugeMetricFamily("pve_disk_usage_bytes", <<"id">>),
     maxmem    |-> GaugeMetricFamily("pve_memory_size_bytes", <<"id", "node", "type">>),
     mem       |-> GaugeMetricFamily("pve_memory_usage_bytes", <<"id", "node", "type">>),
     netout    |-> GaugeMetricFamily("pve_network_transmit_bytes", <<"id">>),
     netin     |-> GaugeMetricFamily("pve_network_receive_bytes", <<"id">>),
     diskwrite |-> GaugeMetricFamily("pve_disk_write_bytes", <<"id">>),
     diskread  |-> GaugeMetricFamily("pve_disk_read_bytes", <<"id">>),
     cpu       |-> GaugeMetricFamily("pve_cpu_usage_ratio", <<"id", "node", "type">>),
     maxcpu    |-> GaugeMetricFamily("pve_cpu_usage_limit", <<"id", "node", "type">>),
     uptime    |-> GaugeMetricFamily("pve_uptime_seconds", <<"id">>),
     shared    |-> GaugeMetricFamily("pve_storage_shared", <<"id">>)]

InfoKeys == <<"guest", "storage">>

InfoMetrics ==
    [guest   |-> GaugeMetricFamily("pve_guest_info", <<"id", "node", "name", "type">>),
     storage |-> GaugeMetricFamily("pve_storage_info", <<"id", "node", "storage">>)]

InfoLookup ==
    [lxc     |-> [labels |-> <<"id", "node", "name", "type">>, gauge |-> "guest"],
     qemu    |-> [labels |-> <<"id", "node", "name", "type">>, gauge |-> "guest"],
     storage |-> [labels |-> <<"id", "node", "storage">>, gauge |-> "storage"]]

ResTypes == {"node", "qemu", "lxc", "storage"}
OptionalFields == {"storage", "name"}

\* the value a record of type t holds in field f
FieldValue(t, f) ==
    CASE f = "id"      -> <<t, "/", "100">>
      [] f = "type"    -> Str(t)
      [] f = "node"    -> Str("pve1")
      [] f = "storage" -> Str("nfs")
      [] f = "name"    -> Str("vm1")
      [] OTHER         -> 1

\* the records cluster.resources.get() may answer: 'id', 'type' and 'node', which
\* the API gives every node, guest and storage, any of the optional fields, and
\* allow-listed fields
ResourceRecords ==
    { [f \in {"id", "type", "node"} \cup opt \cup mk |-> FieldValue(t, f)] :
        t \in ResTypes, opt \in SUBSET OptionalFields,
        mk \in { s \in SUBSET Range(MetricKeys) : Cardinality(s) <= MaxMetricFields } }

ResourceLists == UNION { [1..k -> ResourceRecords] : k \in 0..MaxResources }

\* [resource.get(key, '') for key in labels]
InfoLabelValues(resource, labels) ==
    [i \in DOMAIN labels |->
        IF labels[i] \in DOMAIN resource THEN resource[labels[i]] ELSE <<>>]

\* if restype in info_lookup: info_lookup[restype]['gauge'].add_metric(label_values, 1)
InfoPass(info, resource) ==
    LET restype == resource.type[1]
    IN  IF restype \in DOMAIN InfoLookup
        THEN [info EXCEPT ![InfoLookup[restype].gauge] =
                AddMetric(@, InfoLabelValues(resource, InfoLookup[restype].labels), 1)]
        ELSE info

\* [resource[labelname] for labelname in metric._labelnames if labelname in resource]
MetricLabelValues(resource, labelnames) ==
    LET present == SelectSeq(labelnames, LAMBDA l : l \in DOMAIN resource)
    IN  [i \in DOMAIN present |-> resource[present[i]]]

\* for key, metric_value in resource.items(): if key in metrics: add_metric(...)
RECURSIVE MetricPass(_, _, _)
MetricPass(fams, resource, keys) ==
    IF keys = <<>> THEN fams
    ELSE LET key == Head(keys)
             next == IF key \in DOMAIN resource
                     THEN [fams EXCEPT ![key] =
                              AddMetric(@, MetricLabelValues(resource, @.labelnames),
                                        resource[key])]
                     ELSE fams
         IN  MetricPass(next, resource, Tail(keys))

\* for resource in self._pve.cluster.resources.get():
ResGet ==
    /\ pc = "start"
    /\ \/ /\ \E l \in ResourceLists : resources' = l
          /\ ri' = 1
          /\ pc' = IF resources' = <<>> THEN "return" ELSE "resource"
          /\ UNCHANGED escaped
       \/ /\ escaped' = "ResourceException"
          /\ pc' = "raised"
          /\ UNCHANGED <<resources, ri>>
    /\ UNCHANGED <<res_metrics, info_metrics, returned, notRes>>

\* the body of the loop: the info pass, then the metric pass
ResResource ==
    /\ pc = "resource"
    /\ info_metrics' = InfoPass(info_metrics, resources[ri])
    /\ res_metrics' = MetricPass(res_metrics, resources[ri], MetricKeys)
    /\ ri' = ri + 1
    /\ pc' = IF ri < Len(resources) THEN "resource" ELSE "return"
    /\ UNCHANGED <<resources, escaped, returned, notRes>>

\* return itertools.chain(metrics.values(), info_metrics.values())
ResReturn ==
    /\ pc = "return"
    /\ returned' = [i \in DOMAIN MetricKeys |-> res_metrics[MetricKeys[i]]]
                      \o [i \in DOMAIN InfoKeys |-> info_metrics[InfoKeys[i]]]
    /\ pc' = "returned"
    /\ UNCHANGED <<resources, ri, res_metrics, info_metrics, escaped, notRes>>

InitResVars ==
    /\ resources = <<>>
    /\ ri = 0
    /\ res_metrics = ResMetrics
    /\ info_metrics = InfoMetrics

(***************************************************************************)
(* StatusCollector.collect and collect_pve                                 *)
(*                                                                         *)
(* collect_pve registers the enabled collectors and generate_latest calls  *)
(* collect on each, in the order of registration.  StatusCollector is      *)
(* modelled in full; of any other collector the model keeps whether its    *)
(* collect raises.                                                         *)
(***************************************************************************)
ToggleNames == {"status", "version", "node", "cluster", "resources", "config", "volumes"}

\* the order of the register calls
RegisterOrder ==
    <<"status", "resources", "node", "cluster", "config", "version", "volumes">>

\* an entry of cluster.status.get()
StatusEntries ==
    { [type |-> Str("node"), id |-> <<"node", "/", "pve1">>, online |-> o] :
          o \in 0..1 }
      \cup { [type |-> Str("cluster"), name |-> Str("pvec"), quorate |-> q] :
                q \in 0..1 }
      \cup { [type |-> Str("qdevice"), id |-> <<"qdevice", "/", "q1">>] }

StatusLists == UNION { [1..k -> StatusEntries] : k \in 0..MaxEntries }

\* the lists cluster.resources.get(type='vm') may answer
VmResourceLists ==
    { <<>> } \cup { <<[id |-> <<"qemu", "/", "100">>, status |-> Str(s)]>> :
                      s \in {"running", "stopped"} }

StatusFamily == GaugeMetricFamily("pve_up", <<"id">>)

\* the loop with an entry of unknown type skipped
RECURSIVE StatusLoopSkip(_, _)
StatusLoopSkip(family, entries) ==
    IF entries = <<>> THEN [raises |-> FALSE, family |-> family]
    ELSE LET entry == Head(entries)
         IN  IF entry.type = Str("node")
             THEN StatusLoopSkip(AddMetric(family, <<entry.id>>, entry.online),
                                 Tail(entries))
             ELSE IF entry.type = Str("cluster")
             THEN StatusLoopSkip(AddMetric(family,
                                           <<(<<"cluster", "/">> \o entry.name)>>,
                                           entry.quorate),
                                 Tail(entries))
             ELSE StatusLoopSkip(family, Tail(entries))

\* the loop over the status entries: the family so far, or ValueError raised
RECURSIVE StatusLoop(_, _)
StatusLoop(family, entries) ==
    IF entries = <<>> THEN [raises |-> FALSE, family |-> family]
    ELSE LET entry == Head(entries)
         IN  IF entry.type = Str("node")
             THEN StatusLoop(AddMetric(family, <<entry.id>>, entry.online),
                             Tail(entries))
             ELSE IF entry.type = Str("cluster")
             THEN StatusLoop(AddMetric(family, <<(<<"cluster", "/">> \o entry.name)>>,
                                       entry.quorate),
                             Tail(entries))
             ELSE [raises |-> TRUE, family |-> family]

\* the loop over the vm resources: status_metrics.add_metric([id], status == 'running')
RECURSIVE VmLoop(_, _)
VmLoop(family, vms) ==
    IF vms = <<>> THEN family
    ELSE VmLoop(AddMetric(family, <<Head(vms).id>>,
                          IF Head(vms).status = Str("running") THEN 1 ELSE 0),
                Tail(vms))

\* CollectorRegistry after the register calls of collect_pve
RegistryOf(opts) ==
    <<"custom">> \o SelectSeq(RegisterOrder, LAMBDA c : opts[c])

\* pve = ProxmoxAPI(host, **config); registry = CollectorRegistry(); register ...
PveRegister ==
    /\ pc = "start"
    /\ \/ /\ \E opts \in [ToggleNames -> BOOLEAN] :
                /\ options' = opts
                /\ registry' = RegistryOf(opts)
          /\ \E a \in Answers(StatusLists) : status_response' = a
          /\ ci' = 1
          /\ pc' = "collect"
          /\ UNCHANGED escaped
       \/ /\ escaped' = "AuthenticationError"
          /\ pc' = "raised"
          /\ UNCHANGED <<options, status_response, registry, ci>>
    /\ UNCHANGED <<output, returned, notPve>>

\* generate_latest: StatusCollector.collect
PveStatusCollect ==
    /\ pc = "collect"
    /\ ci <= Len(registry)
    /\ registry[ci] = "status"
    /\ IF status_response.raises
       THEN /\ escaped' = "ResourceException"
            /\ pc' = "raised"
            /\ UNCHANGED <<output, ci>>
       ELSE LET loop == StatusLoop(StatusFamily, status_response.value)
            IN  IF loop.raises
                THEN /\ escaped' = "ValueError"
                     /\ pc' = "raised"
                     /\ UNCHANGED <<output, ci>>
                ELSE \/ /\ \E vms \in VmResourceLists :
                              output' = Append(output, VmLoop(loop.family, vms))
                        /\ ci' = ci + 1
                        /\ UNCHANGED <<pc, escaped>>
                     \/ /\ escaped' = "ResourceException"
                        /\ pc' = "raised"
                        /\ UNCHANGED <<output, ci>>
    /\ UNCHANGED <<options, status_response, registry, returned, notPve>>

\* generate_latest: collect of a collector other than StatusCollector
PveOtherCollect ==
    /\ pc = "collect"
    /\ ci <= Len(registry)
    /\ registry[ci] # "status"
    /\ \/ /\ output' = Append(output, GaugeMetricFamily(registry[ci], <<>>))
          /\ ci' = ci + 1
          /\ UNCHANGED <<pc, escaped>>
       \/ /\ escaped' = "Exception"
          /\ pc' = "raised"
          /\ UNCHANGED <<output, ci>>
    /\ UNCHANGED <<options, status_response, registry, returned, notPve>>

\* return generate_latest(registry)
PveRender ==
    /\ pc = "collect"
    /\ ci > Len(registry)
    /\ returned' = output
    /\ pc' = "returned"
    /\ UNCHANGED <<escaped, pveVars, notPve>>

InitPveVars ==
    /\ options = [c \in ToggleNames |-> FALSE]
    /\ status_response = [raises |-> FALSE, value |-> <<>>]
    /\ registry = <<>>
    /\ ci = 0
    /\ output = <<>>

\* the state before collect is called
InitCommon ==
    /\ pc = "start"
    /\ nodes = <<>>
    /\ ni = 0
    /\ log = <<>>
    /\ escaped = "none"
    /\ returned = <<>>
    /\ raisedAt = {}

InitCfgVars ==
    /\ vmlist = <<>>
    /\ vi = 0
    /\ metrics = CfgMetrics
    /\ listed = {}
    /\ answered = {}

InitOthers ==
    InitCfgVars /\ InitVolVars /\ InitNoteVars /\ InitResVars /\ InitPveVars

InitConfig == InitCommon /\ InitOthers

NextConfig == CfgNodesGet \/ CfgGuestList \/ CfgGuestConfig \/ CfgReturn

SpecConfig == InitConfig /\ [][NextConfig]_vars

InitVolumes == InitCommon /\ InitOthers

NextVolumes == VolNodesGet \/ VolStorageList \/ VolStorage \/ VolContent \/ VolReturn

SpecVolumes == InitVolumes /\ [][NextVolumes]_vars

InitNotes == InitCommon /\ InitOthers

NextNotes == CustomOptionsGet \/ CustomCollect

SpecNotes == InitNotes /\ [][NextNotes]_vars

InitResources == InitCommon /\ InitOthers

NextResources == ResGet \/ ResResource \/ ResReturn

SpecResources == InitResources /\ [][NextResources]_vars

InitPve == InitCommon /\ InitOthers

NextPve == PveRegister \/ PveStatusCollect \/ PveOtherCollect \/ PveRender

SpecPve == InitPve /\ [][NextPve]_vars

(***************************************************************************)
(* Properties of ClusterNodeConfigCollector.collect (SpecConfig)           *)
(***************************************************************************)
\* the sample a guest config with an 'onboot' key puts in pve_onboot_status
OnbootSample(a) ==
    [labels |-> [id |-> GuestId(a.vmtype, a.vmid), node |-> a.node,
                 type |-> Str(a.vmtype)],
     value |-> a.config.onboot]

\* the family holds a sample carrying the id, node and type of guest a
HasGuestSample(family, a) ==
    \E s \in Samples(family) :
        s.labels = [id |-> GuestId(a.vmtype, a.vmid), node |-> a.node,
                    type |-> Str(a.vmtype)]

\* every node of the list either raised or had both its guest lists answered
EveryNodeReached ==
    \A i \in DOMAIN nodes :
        \/ nodes[i] \in raisedAt
        \/ {<<nodes[i], "qemu">>, <<nodes[i], "lxc">>} \subseteq listed

\* C1 (as amended): whichever per-node calls (qemu list, lxc list, a guest's
\* config) raise ResourceException, no exception raised by them escapes collect,
\* each is logged, the loop reaches every later node of the list, and the
\* returned family holds the 'onboot' sample of every guest of a node whose
\* calls all succeeded and whose config has an 'onboot' key.
C1_FailureIsolatedOnbootKeys ==
    /\ raisedAt # {} => escaped = "none"
    /\ raisedAt \subseteq Range(log)
    /\ pc = "returned" =>
          /\ EveryNodeReached
          /\ \A a \in answered :
                (a.node \notin raisedAt /\ "onboot" \in DOMAIN a.config)
                    => OnbootSample(a) \in Samples(returned[1])

\* C1 (as stated): ... and every guest of a node whose calls all succeed has
\* its 'onboot' sample in the returned family.
C1_EveryGuestHasOnbootSample ==
    /\ raisedAt # {} => escaped = "none"
    /\ pc = "returned" =>
          /\ EveryNodeReached
          /\ \A a \in answered :
                a.node \notin raisedAt => HasGuestSample(returned[1], a)

\* C1 witness: collect returned after a node raised, and a guest of a later
\* node, all of whose calls succeeded, has its 'onboot' sample in the family.
C1_Witness ==
    /\ pc = "returned"
    /\ \E i, j \in DOMAIN nodes :
          /\ i < j
          /\ nodes[i] \in raisedAt
          /\ nodes[j] \notin raisedAt
          /\ \E a \in answered :
                /\ a.node = nodes[j]
                /\ "onboot" \in DOMAIN a.config
                /\ OnbootSample(a) \in Samples(returned[1])

\* C3: when an API call made for node N raised during collect, the returned
\* family holds no sample whose 'node' label is N, whichever call it was.
C3_FailedNodeOmitted ==
    pc = "returned" =>
        \A n \in raisedAt :
            \A s \in Samples(returned[1]) : s.labels.node # n

(***************************************************************************)
(* Properties of VolumesCollector.collect (SpecVolumes)                    *)
(***************************************************************************)
\* the records of the storage list node i answers
StorageRecordsOf(i) == Range(cluster[i].storage.value)

\* node i reports s as a shared storage that the type/active filter keeps
ReportsShared(i, s) ==
    \E r \in StorageRecordsOf(i) :
        r.storage = s /\ Truthy(r.shared) /\ ~SkippedByFilter(r)

\* every call collect can make for node i succeeds
AllCallsSucceed(i) ==
    /\ ~cluster[i].storage.raises
    /\ \A r \in StorageRecordsOf(i) :
          ~SkippedByFilter(r) => ~cluster[i].content[r.storage].raises

\* the sample of volume d of storage s listed from node n
VolumeSample(n, s, d) ==
    [labels |-> [id |-> DiskId(n, d.volid), node |-> n, storage |-> s],
     value |-> d.size]

\* the loop over the storages of node i has moved past its j-th record
Passed(i, j) ==
    \/ i < ni /\ nodes[i] \notin raisedAt
    \/ i = ni /\ pc \in {"storage", "content", "raised"} /\ j < si

\* C2: when the storage listing or a content listing of a node raises
\* ResourceException, the error is logged, no exception escapes collect, and
\* the returned family holds the volumes of the other nodes.
C2_VolumesFailureIsolated ==
    /\ raisedAt # {} => escaped = "none"
    /\ raisedAt \subseteq Range(log)
    /\ pc = "returned" =>
          \A c \in contentCalls :
              c[1] \notin raisedAt =>
                  \A i \in DOMAIN nodes : nodes[i] = c[1] =>
                      \A d \in Range(cluster[i].content[c[2].storage].value) :
                          VolumeSample(c[1], c[2].storage, d) \in Samples(returned[1])

\* C4 (as amended): the content of a storage is listed, and volume samples are
\* emitted for it, only if its type is not "dir" and it is active; every "dir"
\* storage and every inactive storage is skipped, and every active non-"dir"
\* storage the loop gets to, unless it is shared and its name was already
\* listed from an earlier node, has its content listing asked.
C4_ListsActiveNonDir ==
    /\ \A c \in contentCalls : c[2].type # Str("dir") /\ Truthy(c[2].active)
    /\ \A s \in Samples(disk_size) :
          \E c \in contentCalls :
              c[1] = s.labels.node /\ c[2].storage = s.labels.storage
    /\ \A i \in DOMAIN nodes : \A j \in DOMAIN cluster[i].storage.value :
          LET r == cluster[i].storage.value[j]
          IN  Passed(i, j) =>
                \/ <<nodes[i], r>> \in contentCalls
                \/ r.type = Str("dir")
                \/ ~Truthy(r.active)
                \/ /\ Truthy(r.shared)
                   /\ \E c \in contentCalls : c[1] # nodes[i] /\ c[2].storage = r.storage

\* C4 (as stated): the content of a storage is listed only if its type is
\* "dir" and it is active.
C4_ListsActiveDir ==
    \A c \in contentCalls : c[2].type = Str("dir") /\ Truthy(c[2].active)

\* C4 witness: collect returned having listed an active non-"dir" storage and
\* emitted a volume of it, and having skipped an active "dir" storage.
C4_Witness ==
    /\ pc = "returned"
    /\ \E c \in contentCalls :
          \E s \in Samples(returned[1]) :
              s.labels.node = c[1] /\ s.labels.storage = c[2].storage
    /\ \E i \in DOMAIN nodes : \E r \in StorageRecordsOf(i) :
          /\ r.type = Str("dir")
          /\ Truthy(r.active)
          /\ <<nodes[i], r>> \notin contentCalls

C10_SharedStorageNotHidden ==
    pc \in {"returned", "raised"} =>
      /\ \A c \in contentCalls : \A i \in DOMAIN nodes :
            (nodes[i] = c[1] /\ cluster[i].content[c[2].storage].raises)
                => c[2].storage \notin seen_shared_storages
      /\ \A s \in StorageNameSet :
            (\E i \in DOMAIN nodes : ReportsShared(i, s) /\ AllCallsSucceed(i))
                => \E k \in DOMAIN nodes :
                      /\ ReportsShared(k, s)
                      /\ ~cluster[k].content[s].raises
                      /\ returned # <<>>
                      /\ \E c \in contentCalls : c[1] = nodes[k] /\ c[2].storage = s
                      /\ \A d \in Range(cluster[k].content[s].value) :
                            VolumeSample(nodes[k], s, d) \in Samples(returned[1])

(***************************************************************************)
(* Properties of ClusterCustomMetricsCollector.collect (SpecNotes)         *)
(***************************************************************************)
\* re.search: the match at the first position of the text where there is one
Search(text) ==
    LET hits == { p \in 1..Len(text) : MatchAt(text, p).matched }
    IN  IF hits = {} THEN NoMatch
        ELSE MatchAt(text, CHOOSE p \in hits : \A q \in hits : p <= q)

\* C6: when the notes hold, at any position, a heading '#+ Prometheus metrics'
\* followed by a fenced block, the collector takes the first such pair from the
\* start of the text (the block ends at the first closing fence) and emits the
\* families parsed from it; when the notes hold no such pair it emits nothing.
C6_FirstBlockAnywhere ==
    pc \in {"returned", "raised"} =>
        /\ m = Search(notes)
        /\ (pc = "returned" /\ Search(notes).matched)
              => returned = Relabel(ParseFamilies(Search(notes).group))
        /\ ~Search(notes).matched => returned = <<>>

(***************************************************************************)
(* Properties of ClusterResourcesCollector.collect (SpecResources)         *)
(***************************************************************************)
\* the records the loop has processed
Processed == { resources[i] : i \in 1..(ri - 1) }

\* C7: every sample added to one of the 12 metric families or the 2 info
\* families has a label set whose names are exactly the family's declared
\* label names.
C7_LabelSetsComplete ==
    /\ \A i \in DOMAIN MetricKeys :
          \A s \in Samples(res_metrics[MetricKeys[i]]) :
              DOMAIN s.labels = Range(res_metrics[MetricKeys[i]].labelnames)
    /\ \A i \in DOMAIN InfoKeys :
          \A s \in Samples(info_metrics[InfoKeys[i]]) :
              DOMAIN s.labels = Range(info_metrics[InfoKeys[i]].labelnames)

\* C9: every sample of the metric pass comes from a processed record that has
\* the family's field and whose own field L is the value of each label L of
\* the sample.
C9_LabelValuesAligned ==
    \A i \in DOMAIN MetricKeys :
        \A s \in Samples(res_metrics[MetricKeys[i]]) :
            \E r \in Processed :
                /\ MetricKeys[i] \in DOMAIN r
                /\ \A L \in DOMAIN s.labels : L \in DOMAIN r /\ s.labels[L] = r[L]

(***************************************************************************)
(* Properties of collect_pve (SpecPve)                                     *)
(***************************************************************************)
\* the status response holds an entry whose type is neither node nor cluster
HasUnknownEntry ==
    /\ ~status_response.raises
    /\ \E i \in DOMAIN status_response.value :
          status_response.value[i].type \notin {Str("node"), Str("cluster")}

\* the position of StatusCollector in the registry
StatusIndex == CHOOSE i \in DOMAIN registry : registry[i] = "status"

\* C8: with the status toggle on and an entry of unknown type in the status
\* response, wherever it stands, StatusCollector raises once collected, no
\* collector after it is collected, collect_pve never returns any text and no
\* pve_up family is rendered, whichever other collectors are enabled.
C8_FailFast ==
    (pc # "start" /\ options.status /\ HasUnknownEntry) =>
        /\ pc # "returned"
        /\ returned = <<>>
        /\ ci <= StatusIndex
        /\ \A i \in DOMAIN output : output[i].name # "pve_up"
        /\ (pc = "raised" /\ ci = StatusIndex) => escaped = "ValueError"

\* C8 witness: StatusCollector raised on an unknown entry that follows a node
\* entry, with collectors registered after it and the one before it collected.
C8_Witness ==
    /\ pc = "raised"
    /\ escaped = "ValueError"
    /\ options.status
    /\ Len(registry) > StatusIndex
    /\ ci = StatusIndex
    /\ Len(output) = ci - 1
    /\ Len(status_response.value) >= 2
    /\ status_response.value[1].type = Str("node")
    /\ status_response.value[2].type = Str("qdevice")

====
